---- MODULE Spec2Model ----
(***************************************************************************)
(* Lift Track API (src/server.js): an express application whose handlers   *)
(* translate HTTP requests into SQL statements sent through one shared     *)
(* pg connection pool.  The model has three layers:                        *)
(*   - the relational store: three tables, per-connection transactions     *)
(*     (BEGIN / COMMIT / ROLLBACK, autocommit outside a transaction);      *)
(*   - the pool: pool.query checks a client out for ONE statement and      *)
(*     releases it when the result arrives (destroying it on an error);    *)
(*   - the handlers, cut at their suspension points (each await).          *)
(***************************************************************************)
EXTENDS Integers, Sequences, FiniteSets, TLC

\* ------------------------------------------------------------------ bounds
NReq == 2          \* requests received in one run (one slot each)
PoolMax == 1       \* clients the pool may hold at once (pg's `max`, scaled down)

Cost == 10         \* bcrypt work factor, server.js line 34

Reqs == 1..NReq
Clients == 1..PoolMax
PlanIds == {1, 2}
Salts == {1}
Missing == 0       \* a body field that is absent (undefined)
Passwords == {1, 2}
Usernames == {"alice"}
UserIds == {1}
PlanNames == {"push"}
Descriptions == {"upper"}
ExerciseNames == {"squat", "bench"}
SetCounts == {3}
RepCounts == {10}
Notes == {"slow"}

VARIABLES
  db,       \* committed tables: users, plans, exercises (sequences of rows)
  seq,      \* the tables' id sequences (next value of each)
  tx,       \* tx[c]: the transaction open on client c's connection
  clients,  \* clients the pool holds
  idle,     \* idle clients, most recently released last
  pending,  \* requests queued for a client, oldest first
  req,      \* req[r]: the handler invocation of request r
  durable   \* history: row deletions that were committed, with their issuer

vars == <<db, seq, tx, clients, idle, pending, req, durable>>

\* ------------------------------------------------------------ bcrypt
\* The digest of a password under a salt (a one-way mix; injective on the
\* model's small domains).
Digest(password, salt) == (password * 31 + salt * 7 + Cost) % 97

\* bcrypt.hash(password, 10): the stored string carries the salt and the digest.
Hash(password, salt) == [salt |-> salt, digest |-> Digest(password, salt)]

\* bcrypt.compare(password, hash): re-hash under the stored salt.
Compare(password, hash) == Digest(password, hash.salt) = hash.digest

\* ------------------------------------------------------------ the store
Range(s) == {s[i] : i \in 1..Len(s)}

EmptyDb == [users |-> <<>>, plans |-> <<>>, exercises |-> <<>>]

\* A connection with no transaction open.  addU/addP/addE are rows inserted
\* and not committed; delP/delE are committed rows deleted and not committed,
\* each tagged with the request that issued the DELETE; by is the request
\* whose BEGIN opened the transaction.
NoTx == [open |-> FALSE, by |-> 0, addU |-> <<>>, addP |-> <<>>, addE |-> <<>>,
         delP |-> {}, delE |-> {}]

Ids(tagged) == {d.id : d \in tagged}

\* What a statement on connection state t sees: the committed rows it has not
\* deleted, then its own uncommitted rows.
View(t) ==
  [users |-> db.users \o t.addU,
   plans |-> SelectSeq(db.plans, LAMBDA p : p.plan_id \notin Ids(t.delP)) \o t.addP,
   exercises |-> SelectSeq(db.exercises, LAMBDA e : e.exercise_id \notin Ids(t.delE))
                   \o t.addE]

Tagged(tbl, dels) == {[tbl |-> tbl, id |-> d.id, by |-> d.by] : d \in dels}


\* Schema constraint: users.username is unique.
UsernameFree(t, username) ==
  \A u \in Range(View(t).users) : u.username # username

\* Schema constraint: exercise.plan_id must name an existing workout_plan row
\* when the exercise is inserted.
PlanExists(t, plan_id) ==
  \E p \in Range(View(t).plans) : p.plan_id = plan_id

\* 'INSERT INTO "users" (username, password) VALUES ($1, $2) RETURNING *'
InsertUser(t, s) ==
  IF ~UsernameFree(t, s.username)
  THEN [err |-> TRUE, rows |-> <<>>, t |-> t]
  ELSE LET row == [id |-> seq.users, username |-> s.username, password |-> s.password]
       IN [err |-> FALSE, rows |-> <<row>>, t |-> [t EXCEPT !.addU = Append(@, row)]]

\* 'SELECT * FROM "users" WHERE username = $1'
SelectUser(t, s) ==
  [err |-> FALSE, t |-> t,
   rows |-> SelectSeq(View(t).users, LAMBDA u : u.username = s.username)]

\* 'INSERT INTO "workout_plan" (user_id, plan_name, description) ... RETURNING *'
InsertPlan(t, s) ==
  LET row == [plan_id |-> seq.plans, user_id |-> s.user_id,
              plan_name |-> s.plan_name, description |-> s.description]
  IN [err |-> FALSE, rows |-> <<row>>, t |-> [t EXCEPT !.addP = Append(@, row)]]

\* 'SELECT plan_id, plan_name, description FROM "workout_plan" WHERE user_id = $1'
ProjectPlan(p) ==
  [plan_id |-> p.plan_id, plan_name |-> p.plan_name, description |-> p.description]

SelectPlans(t, s) ==
  LET hit == SelectSeq(View(t).plans, LAMBDA p : p.user_id = s.user_id)
  IN [err |-> FALSE, t |-> t, rows |-> [i \in 1..Len(hit) |-> ProjectPlan(hit[i])]]

\* 'DELETE FROM "exercise" WHERE plan_id = $1' issued by request r
DeleteExercises(t, r, s) ==
  LET gone == {e.exercise_id : e \in {x \in Range(View(t).exercises) : x.plan_id = s.plan_id}}
      committed == gone \cap {e.exercise_id : e \in Range(db.exercises)}
  IN [err |-> FALSE, rows |-> <<>>,
      t |-> [t EXCEPT !.addE = SelectSeq(@, LAMBDA e : e.exercise_id \notin gone),
                      !.delE = @ \cup {[id |-> i, by |-> r] : i \in committed}]]

\* 'DELETE FROM "workout_plan" WHERE plan_id = $1 RETURNING *' issued by request r
DeletePlan(t, r, s) ==
  LET hit == SelectSeq(View(t).plans, LAMBDA p : p.plan_id = s.plan_id)
      gone == {p.plan_id : p \in Range(hit)}
      committed == gone \cap {p.plan_id : p \in Range(db.plans)}
  IN [err |-> FALSE, rows |-> hit,
      t |-> [t EXCEPT !.addP = SelectSeq(@, LAMBDA p : p.plan_id \notin gone),
                      !.delP = @ \cup {[id |-> i, by |-> r] : i \in committed}]]

\* 'INSERT INTO "exercise" (plan_id, exercise_name, sets, repetitions, notes)
\*  VALUES ($1, $2, $3, $4, $5) RETURNING *'
InsertExercise(t, s) ==
  IF ~PlanExists(t, s.plan_id)
  THEN [err |-> TRUE, rows |-> <<>>, t |-> t]
  ELSE LET row == [exercise_id |-> seq.exercises, plan_id |-> s.plan_id,
                   exercise_name |-> s.exercise_name, sets |-> s.sets,
                   repetitions |-> s.repetitions, notes |-> s.notes]
       IN [err |-> FALSE, rows |-> <<row>>, t |-> [t EXCEPT !.addE = Append(@, row)]]

\* 'SELECT * FROM "exercise" WHERE plan_id = $1'
SelectExercises(t, s) ==
  [err |-> FALSE, t |-> t,
   rows |-> SelectSeq(View(t).exercises, LAMBDA e : e.plan_id = s.plan_id)]

\* 'BEGIN': opens a transaction on the connection it runs on (a warning, and
\* no change, when one is open already).
Begin(t, r) ==
  [err |-> FALSE, rows |-> <<>>,
   t |-> IF t.open THEN t ELSE [t EXCEPT !.open = TRUE, !.by = r]]

\* The result of statement s of request r on a connection in state t.
\* COMMIT and ROLLBACK leave t as it is here; StoreExec ends the transaction.
Exec(t, r, s) ==
  CASE s.op = "InsertUser" -> InsertUser(t, s)
    [] s.op = "SelectUser" -> SelectUser(t, s)
    [] s.op = "InsertPlan" -> InsertPlan(t, s)
    [] s.op = "SelectPlans" -> SelectPlans(t, s)
    [] s.op = "DeleteExercises" -> DeleteExercises(t, r, s)
    [] s.op = "DeletePlan" -> DeletePlan(t, r, s)
    [] s.op = "InsertExercise" -> InsertExercise(t, s)
    [] s.op = "SelectExercises" -> SelectExercises(t, s)
    [] s.op = "Begin" -> Begin(t, r)
    [] OTHER -> [err |-> FALSE, rows |-> <<>>, t |-> t]

\* The id sequences after statement s ran: an INSERT draws its id whether or
\* not the row is kept.
NextSeq(s) ==
  CASE s.op = "InsertUser" -> [seq EXCEPT !.users = @ + 1]
    [] s.op = "InsertPlan" -> [seq EXCEPT !.plans = @ + 1]
    [] s.op = "InsertExercise" -> [seq EXCEPT !.exercises = @ + 1]
    [] OTHER -> seq

\* Row locks: statement s on client c waits while another connection's open
\* transaction holds an uncommitted change to a row s must read for a
\* constraint or write.
Blocked(c, s) ==
  \E o \in Clients \ {c} :
    CASE s.op = "InsertUser" ->
           \E u \in Range(tx[o].addU) : u.username = s.username
      [] s.op = "InsertExercise" -> s.plan_id \in Ids(tx[o].delP)
      [] s.op = "DeletePlan" -> s.plan_id \in Ids(tx[o].delP)
      [] s.op = "DeleteExercises" ->
           \E e \in Range(db.exercises) :
             e.plan_id = s.plan_id /\ e.exercise_id \in Ids(tx[o].delE)
      [] OTHER -> FALSE

\* ------------------------------------------------------------ the pool
\* The pool as a value, so that a release and the next pool.query compose
\* within one handler step.  grants: the clients handed out by that step.
CurPool == [clients |-> clients, idle |-> idle, pending |-> pending, grants |-> {}]

\* A new client connects (the lowest free slot).
Fresh(cl) == CHOOSE n \in Clients \ cl : \A m \in Clients \ cl : n <= m

\* pool.query's client.release(err): a client whose query failed is destroyed,
\* any other goes to the oldest queued request or, with none queued, to the
\* idle list.
PoolRelease(pl, c, err) ==
  IF err
  THEN LET cl == pl.clients \ {c}
       IN IF pl.pending # <<>>
          THEN [pl EXCEPT !.clients = cl \cup {Fresh(cl)},
                          !.pending = Tail(@),
                          !.grants = @ \cup {[r |-> Head(pl.pending), c |-> Fresh(cl)]}]
          ELSE [pl EXCEPT !.clients = cl]
  ELSE IF pl.pending # <<>>
       THEN [pl EXCEPT !.pending = Tail(@),
                       !.grants = @ \cup {[r |-> Head(pl.pending), c |-> c]}]
       ELSE [pl EXCEPT !.idle = Append(@, c)]

\* pool.query's connect: the most recently released idle client, else a new
\* client while the pool is not full, else the request waits in the queue.
PoolQuery(pl, r) ==
  IF pl.idle # <<>>
  THEN [pl EXCEPT !.idle = SubSeq(@, 1, Len(@) - 1),
                  !.grants = @ \cup {[r |-> r, c |-> pl.idle[Len(pl.idle)]]}]
  ELSE IF Cardinality(pl.clients) < PoolMax
       THEN [pl EXCEPT !.clients = @ \cup {Fresh(pl.clients)},
                       !.grants = @ \cup {[r |-> r, c |-> Fresh(pl.clients)]}]
       ELSE [pl EXCEPT !.pending = Append(@, r)]

Granted(pl, q) == \E g \in pl.grants : g.r = q
GrantOf(pl, q) == (CHOOSE g \in pl.grants : g.r = q).c

\* ------------------------------------------------------------ requests
NoStmt == [op |-> "none"]
NoRes == [err |-> FALSE, rows |-> <<>>]
NoBody == [success |-> "none", message |-> "", data |-> <<>>]

\* A request not yet received.  before: the plan row and exercise rows the
\* request's planId had when it arrived (history, plan deletion only).
NewReq == [kind |-> "none", pc |-> "new", arg |-> <<>>, stage |-> "", conn |-> 0,
           stmt |-> NoStmt, res |-> NoRes, saved |-> <<>>, status |-> 0,
           body |-> NoBody, nresp |-> 0, failed |-> FALSE,
           before |-> [plan |-> FALSE, ex |-> {}]]

\* The pool and the requests after a handler step of r: r becomes rec, a
\* queued request that was handed a client has its statement sent.
Settle(pl, r, rec) ==
  /\ clients' = pl.clients
  /\ idle' = pl.idle
  /\ pending' = pl.pending
  /\ req' = [q \in Reqs |->
              IF q = r THEN rec
              ELSE IF Granted(pl, q)
                   THEN [req[q] EXCEPT !.pc = "sent", !.conn = GrantOf(pl, q)]
                   ELSE req[q]]

\* await pool.query(s): r suspends with statement s on a client, or queued.
Query(pl, r, rec, s) ==
  LET p2 == PoolQuery(pl, r)
  IN Settle(p2, r,
            IF Granted(p2, r)
            THEN [rec EXCEPT !.stmt = s, !.pc = "sent", !.conn = GrantOf(p2, r)]
            ELSE [rec EXCEPT !.stmt = s, !.pc = "queued", !.conn = 0])

\* res.status(status).json(body): the handler returns.
Respond(pl, r, status, body) ==
  Settle(pl, r, [req[r] EXCEPT !.pc = "done", !.conn = 0, !.status = status,
                               !.body = body, !.nresp = @ + 1])

\* A rejection no catch block receives leaves the async handler.  Express 4
\* ignores the promise a handler returns: the handler ends and nothing is
\* sent.  Express 5 passes the rejection to its default error handler, which
\* answers 500.  The source does not pin the version.
Unhandled(pl, r, rec) ==
  \/ Settle(pl, r, [rec EXCEPT !.pc = "unhandled", !.conn = 0])
  \/ Settle(pl, r, [rec EXCEPT !.pc = "done", !.conn = 0, !.status = 500,
                               !.body = [success |-> "none",
                                         message |-> "Internal Server Error",
                                         data |-> <<>>],
                               !.nresp = @ + 1])

Error500 == [success |-> "false", message |-> "Internal Server Error", data |-> <<>>]

\* The pool after the result of r's statement arrived.
Released(r) == PoolRelease(CurPool, req[r].conn, req[r].res.err)

StoreUnchanged == UNCHANGED <<db, seq, tx, durable>>

\* Requests are numbered in their order of arrival: r is received next.
Arrives(r) == req[r].pc = "new" /\ \A q \in Reqs : q < r => req[q].pc # "new"

\* ------------------------------------------------------------ the store's steps
\* The store runs the statement r has on its client: inside the connection's
\* open transaction, or committed at once when none is open.  A statement the
\* store rejects ends the connection's transaction (the pool destroys the
\* client and the server rolls back).
StoreExec(r) ==
  /\ req[r].pc = "sent"
  /\ ~Blocked(req[r].conn, req[r].stmt)
  /\ LET c == req[r].conn
         s == req[r].stmt
         out == Exec(tx[c], r, s)
     IN /\ seq' = NextSeq(s)
        /\ req' = [req EXCEPT ![r].pc = "replied",
                              ![r].res = [err |-> out.err, rows |-> out.rows]]
        /\ IF out.err \/ s.op = "Rollback"
           THEN /\ tx' = [tx EXCEPT ![c] = NoTx]
                /\ UNCHANGED <<db, durable>>
           ELSE IF s.op = "Commit" \/ ~out.t.open
           THEN /\ tx' = [tx EXCEPT ![c] = NoTx]
                /\ db' = View(out.t)
                /\ durable' = durable \cup Tagged("plan", out.t.delP)
                                      \cup Tagged("exercise", out.t.delE)
           ELSE /\ tx' = [tx EXCEPT ![c] = out.t]
                /\ UNCHANGED <<db, durable>>
  /\ UNCHANGED <<clients, idle, pending>>

\* The statement fails (the store is unreachable, the connection drops, the
\* server reports an error): no effect, and the connection's transaction is gone.
StoreFail(r) ==
  /\ req[r].pc = "sent"
  /\ req' = [req EXCEPT ![r].pc = "replied", ![r].res = [err |-> TRUE, rows |-> <<>>]]
  /\ tx' = [tx EXCEPT ![req[r].conn] = NoTx]
  /\ UNCHANGED <<db, seq, durable, clients, idle, pending>>

\* The pool closes a client that stayed idle (idleTimeoutMillis); the server
\* rolls back what its connection had open.
IdleTimeout(c) ==
  /\ c \in Range(idle)
  /\ idle' = SelectSeq(idle, LAMBDA x : x # c)
  /\ clients' = clients \ {c}
  /\ tx' = [tx EXCEPT ![c] = NoTx]
  /\ UNCHANGED <<db, seq, durable, pending, req>>

\* ------------------------------------------------------------ the handlers
\* POST /api/users/register, up to its pool.query.  bcrypt.hash is awaited
\* before the try block: with no password it rejects and nothing catches it.
Register(r, username, password) ==
  /\ Arrives(r)
  /\ LET rec == [NewReq EXCEPT !.kind = "register",
                               !.arg = [username |-> username, password |-> password]]
     IN IF password = Missing
        THEN Unhandled(CurPool, r, rec)
        ELSE \E salt \in Salts :
               Query(CurPool, r, rec,
                     [op |-> "InsertUser", username |-> username,
                      password |-> Hash(password, salt)])
  /\ StoreUnchanged

RegisterResume(r) ==
  /\ req[r].kind = "register" /\ req[r].pc = "replied"
  /\ IF req[r].res.err
     THEN Respond(Released(r), r, 500,
                  [success |-> "none", message |-> "Internal Server Error", data |-> <<>>])
     ELSE Respond(Released(r), r, 201,
                  [success |-> "none", message |-> "", data |-> <<req[r].res.rows[1]>>])
  /\ StoreUnchanged

\* POST /api/users/login
Login(r, username, password) ==
  /\ Arrives(r)
  /\ Query(CurPool, r,
           [NewReq EXCEPT !.kind = "login",
                          !.arg = [username |-> username, password |-> password]],
           [op |-> "SelectUser", username |-> username])
  /\ StoreUnchanged

\* LoginAnswer with the branches of the two failures exchanged: 404 for a
\* wrong password, 401 for an unknown user.
LoginAnswerSwapped(res, password) ==
  IF res.err THEN [status |-> 500, body |-> Error500]
  ELSE IF Len(res.rows) > 0
  THEN IF password = Missing THEN [status |-> 500, body |-> Error500]
       ELSE IF Compare(password, res.rows[1].password)
       THEN [status |-> 200,
             body |-> [success |-> "true", message |-> "Login successful",
                       data |-> <<res.rows[1]>>]]
       ELSE [status |-> 404,
             body |-> [success |-> "false", message |-> "User not found", data |-> <<>>]]
  ELSE [status |-> 401,
        body |-> [success |-> "false", message |-> "Incorrect password", data |-> <<>>]]

\* The status and body login answers with, from the SELECT's result.
\* bcrypt.compare with no password rejects inside the try block.
LoginAnswer(res, password) ==
  IF res.err THEN [status |-> 500, body |-> Error500]
  ELSE IF Len(res.rows) > 0
  THEN IF password = Missing THEN [status |-> 500, body |-> Error500]
       ELSE IF Compare(password, res.rows[1].password)
       THEN [status |-> 200,
             body |-> [success |-> "true", message |-> "Login successful",
                       data |-> <<res.rows[1]>>]]
       ELSE [status |-> 401,
             body |-> [success |-> "false", message |-> "Incorrect password",
                       data |-> <<>>]]
  ELSE [status |-> 404,
        body |-> [success |-> "false", message |-> "User not found", data |-> <<>>]]

LoginResume(r) ==
  /\ req[r].kind = "login" /\ req[r].pc = "replied"
  /\ LET a == LoginAnswer(req[r].res, req[r].arg.password)
     IN Respond(Released(r), r, a.status, a.body)
  /\ StoreUnchanged

\* POST /api/workout-plans
PlanCreate(r, user_id, plan_name, description) ==
  /\ Arrives(r)
  /\ Query(CurPool, r,
           [NewReq EXCEPT !.kind = "planCreate",
                          !.arg = [user_id |-> user_id, plan_name |-> plan_name,
                                   description |-> description]],
           [op |-> "InsertPlan", user_id |-> user_id, plan_name |-> plan_name,
            description |-> description])
  /\ StoreUnchanged

PlanCreateResume(r) ==
  /\ req[r].kind = "planCreate" /\ req[r].pc = "replied"
  /\ IF req[r].res.err
     THEN Respond(Released(r), r, 500, Error500)
     ELSE Respond(Released(r), r, 201,
                  [success |-> "none", message |-> "", data |-> <<req[r].res.rows[1]>>])
  /\ StoreUnchanged

\* GET /api/workout-plans/:user_id
PlansGet(r, user_id) ==
  /\ Arrives(r)
  /\ Query(CurPool, r,
           [NewReq EXCEPT !.kind = "plansGet", !.arg = [user_id |-> user_id]],
           [op |-> "SelectPlans", user_id |-> user_id])
  /\ StoreUnchanged

PlansGetResume(r) ==
  /\ req[r].kind = "plansGet" /\ req[r].pc = "replied"
  /\ IF req[r].res.err
     THEN Respond(Released(r), r, 500, Error500)
     ELSE Respond(Released(r), r, 200,
                  [success |-> "none", message |-> "", data |-> req[r].res.rows])
  /\ StoreUnchanged

\* DELETE /api/workout-plans/:planId, up to its first pool.query ('BEGIN')
PlanDelete(r, planId) ==
  /\ Arrives(r)
  /\ Query(CurPool, r,
           [NewReq EXCEPT
              !.kind = "planDelete", !.arg = [planId |-> planId], !.stage = "BEGIN",
              !.before = [plan |-> \E p \in Range(db.plans) : p.plan_id = planId,
                          ex |-> {e.exercise_id :
                                    e \in {x \in Range(db.exercises) : x.plan_id = planId}}]],
           [op |-> "Begin"])
  /\ StoreUnchanged

\* The statement the deletion handler issues after the one of stage `stage`
\* succeeded.
NextStage(stage) ==
  CASE stage = "BEGIN" -> "DELEX"
    [] stage = "DELEX" -> "DELPLAN"
    [] stage = "DELPLAN" -> "COMMIT"

StageStmt(stage, planId) ==
  CASE stage = "BEGIN" -> [op |-> "Begin"]
    [] stage = "DELEX" -> [op |-> "DeleteExercises", plan_id |-> planId]
    [] stage = "DELPLAN" -> [op |-> "DeletePlan", plan_id |-> planId]
    [] stage = "COMMIT" -> [op |-> "Commit"]
    [] stage = "ROLLBACK" -> [op |-> "Rollback"]

\* What the deletion handler answers once COMMIT succeeded.
DeleteAnswer(deleteWorkoutPlanResult) ==
  IF Len(deleteWorkoutPlanResult) = 0
  THEN [status |-> 404,
        body |-> [success |-> "false", message |-> "Workout plan not found.",
                  data |-> <<>>]]
  ELSE [status |-> 200,
        body |-> [success |-> "true", message |-> "deleted successfully.",
                  data |-> <<>>]]

\* The deletion handler resumes after an await: the next statement of the
\* try block, the catch block's ROLLBACK, or the response.  A ROLLBACK that
\* fails rejects inside the catch block, where nothing catches it.
PlanDeleteResume(r) ==
  /\ req[r].kind = "planDelete" /\ req[r].pc = "replied"
  /\ LET me == req[r]
         pl == Released(r)
     IN IF me.stage = "ROLLBACK"
        THEN IF me.res.err
             THEN Unhandled(pl, r, me)
             ELSE Respond(pl, r, 500, Error500)
        ELSE IF me.res.err
        THEN Query(pl, r, [me EXCEPT !.stage = "ROLLBACK", !.failed = TRUE],
                   StageStmt("ROLLBACK", me.arg.planId))
        ELSE IF me.stage = "COMMIT"
        THEN LET a == DeleteAnswer(me.saved)
             IN Respond(pl, r, a.status, a.body)
        ELSE Query(pl, r,
                   [me EXCEPT !.stage = NextStage(me.stage),
                              !.saved = IF me.stage = "DELPLAN" THEN me.res.rows ELSE @],
                   StageStmt(NextStage(me.stage), me.arg.planId))
  /\ StoreUnchanged

\* POST /api/exercises/:planId
ExerciseCreate(r, planId, exercise_name, sets, repetitions, notes) ==
  /\ Arrives(r)
  /\ Query(CurPool, r,
           [NewReq EXCEPT !.kind = "exerciseCreate",
                          !.arg = [planId |-> planId, exercise_name |-> exercise_name,
                                   sets |-> sets, repetitions |-> repetitions,
                                   notes |-> notes]],
           [op |-> "InsertExercise", plan_id |-> planId, exercise_name |-> exercise_name,
            sets |-> sets, repetitions |-> repetitions, notes |-> notes])
  /\ StoreUnchanged

ExerciseCreateResume(r) ==
  /\ req[r].kind = "exerciseCreate" /\ req[r].pc = "replied"
  /\ IF req[r].res.err
     THEN Respond(Released(r), r, 500, Error500)
     ELSE Respond(Released(r), r, 201,
                  [success |-> "true",
                   message |-> "Exercise added to workout plan successfully.",
                   data |-> <<req[r].res.rows[1]>>])
  /\ StoreUnchanged

\* GET /api/exercises/:planId
ExercisesGet(r, planId) ==
  /\ Arrives(r)
  /\ Query(CurPool, r,
           [NewReq EXCEPT !.kind = "exercisesGet", !.arg = [planId |-> planId]],
           [op |-> "SelectExercises", plan_id |-> planId])
  /\ StoreUnchanged

ExercisesGetResume(r) ==
  /\ req[r].kind = "exercisesGet" /\ req[r].pc = "replied"
  /\ IF req[r].res.err
     THEN Respond(Released(r), r, 500, Error500)
     ELSE Respond(Released(r), r, 200,
                  [success |-> "none", message |-> "", data |-> req[r].res.rows])
  /\ StoreUnchanged

\* ------------------------------------------------------------ the system
\* The database outlives the server: it starts empty, or holding what earlier
\* runs stored (alice; one plan with two exercises, or two plans with one each).
Alice == [id |-> 1, username |-> "alice", password |-> Hash(1, 0)]
Plan(i) == [plan_id |-> i, user_id |-> 1, plan_name |-> "push", description |-> "upper"]
Exercise(i, p, name) ==
  [exercise_id |-> i, plan_id |-> p, exercise_name |-> name, sets |-> 3,
   repetitions |-> 10, notes |-> "slow"]

Seeds ==
  { [db |-> EmptyDb, seq |-> [users |-> 1, plans |-> 1, exercises |-> 1]],
    [db |-> [users |-> <<Alice>>, plans |-> <<Plan(1)>>,
             exercises |-> <<Exercise(1, 1, "squat"), Exercise(2, 1, "bench")>>],
     seq |-> [users |-> 2, plans |-> 2, exercises |-> 3]],
    [db |-> [users |-> <<Alice>>, plans |-> <<Plan(1), Plan(2)>>,
             exercises |-> <<Exercise(1, 1, "squat"), Exercise(2, 2, "bench")>>],
     seq |-> [users |-> 2, plans |-> 3, exercises |-> 3]] }

\* The server starts on database `seed` with an empty pool.
Starts(seed) ==
  /\ db = seed.db /\ seq = seed.seq
  /\ tx = [c \in Clients |-> NoTx]
  /\ clients = {}
  /\ idle = <<>>
  /\ pending = <<>>
  /\ req = [r \in Reqs |-> NewReq]
  /\ durable = {}

Init == \E seed \in Seeds : Starts(seed)

Next ==
  \/ \E r \in Reqs, u \in Usernames, p \in Passwords \cup {Missing} : Register(r, u, p)
  \/ \E r \in Reqs : RegisterResume(r)
  \/ \E r \in Reqs, u \in Usernames, p \in Passwords \cup {Missing} : Login(r, u, p)
  \/ \E r \in Reqs : LoginResume(r)
  \/ \E r \in Reqs, u \in UserIds, n \in PlanNames, d \in Descriptions :
       PlanCreate(r, u, n, d)
  \/ \E r \in Reqs : PlanCreateResume(r)
  \/ \E r \in Reqs, u \in UserIds : PlansGet(r, u)
  \/ \E r \in Reqs : PlansGetResume(r)
  \/ \E r \in Reqs, p \in PlanIds : PlanDelete(r, p)
  \/ \E r \in Reqs : PlanDeleteResume(r)
  \/ \E r \in Reqs, p \in PlanIds, n \in ExerciseNames, s \in SetCounts,
        k \in RepCounts, t \in Notes : ExerciseCreate(r, p, n, s, k, t)
  \/ \E r \in Reqs : ExerciseCreateResume(r)
  \/ \E r \in Reqs, p \in PlanIds : ExercisesGet(r, p)
  \/ \E r \in Reqs : ExercisesGetResume(r)
  \/ \E r \in Reqs : StoreExec(r)
  \/ \E r \in Reqs : StoreFail(r)
  \/ \E c \in Clients : IdleTimeout(c)

Spec == Init /\ [][Next]_vars

\* Registration, login and plan deletion alone: the traffic the login
\* handler's outcomes depend on (users are only ever inserted; plan deletion is
\* the one handler that opens transactions on the shared connections).
NextAuth ==
  \/ \E r \in Reqs, u \in Usernames, p \in Passwords \cup {Missing} : Register(r, u, p)
  \/ \E r \in Reqs : RegisterResume(r)
  \/ \E r \in Reqs, u \in Usernames, p \in Passwords \cup {Missing} : Login(r, u, p)
  \/ \E r \in Reqs : LoginResume(r)
  \/ \E r \in Reqs, p \in PlanIds : PlanDelete(r, p)
  \/ \E r \in Reqs : PlanDeleteResume(r)
  \/ \E r \in Reqs : StoreExec(r)
  \/ \E r \in Reqs : StoreFail(r)
  \/ \E c \in Clients : IdleTimeout(c)

\* For the login claims the database starts empty or holding alice (with one
\* plan and its two exercises).
InitAuth == \E seed \in {x \in Seeds : Len(x.db.plans) <= 1} : Starts(seed)

SpecAuth == InitAuth /\ [][NextAuth]_vars

\* ------------------------------------------------------------ vocabulary of the claims
Finished(r) == req[r].pc \in {"done", "unhandled"}
InFlight(r) == req[r].pc \in {"queued", "sent", "replied"}
Deleting(r) == req[r].kind = "planDelete"

\* The store executes (or fails) the statement of r in this step.
ExecStep(r) == req[r].pc = "sent" /\ req'[r].pc = "replied"
\* The handler of r returns in this step.
ReturnStep(r) == req[r].pc = "replied" /\ Finished(r)'

PlanRow(planId) == \E p \in Range(db.plans) : p.plan_id = planId
ExerciseIds == {e.exercise_id : e \in Range(db.exercises)}

\* The connection state a request arriving now would run its statement on:
\* the idle client pool.query would pick, or a fresh connection.
NowTx ==
  IF idle # <<>> THEN {tx[idle[Len(idle)]]}
  ELSE IF Cardinality(clients) < PoolMax THEN {NoTx} ELSE {}

\* GET /api/exercises/:planId and GET /api/workout-plans/:user_id, as answered
\* on connection state t.
ListExercises(t, planId) == SelectExercises(t, [plan_id |-> planId]).rows
ListPlans(t, user_id) == SelectPlans(t, [user_id |-> user_id]).rows

\* ------------------------------------------------------------ C1
\* C1: plan deletion is all-or-nothing.  Once a deletion handler has finished
\* (and no other deletion of the same plan is still running), the committed
\* store holds either neither the plan row nor any exercise row the plan had
\* when the request arrived, or the plan row and all of them.
AllOrNothing ==
  \A r \in Reqs :
    ( /\ Deleting(r) /\ Finished(r)
      /\ \A q \in Reqs : (Deleting(q) /\ req[q].arg.planId = req[r].arg.planId)
                             => Finished(q) ) =>
      \/ ~PlanRow(req[r].arg.planId) /\ req[r].before.ex \cap ExerciseIds = {}
      \/ PlanRow(req[r].arg.planId) /\ req[r].before.ex \subseteq ExerciseIds

\* ------------------------------------------------------------ C2
\* C2: no exercise outlives its plan.  Whenever no plan deletion is in flight,
\* every committed exercise row names a committed plan row.
NoOrphans ==
  (\A r \in Reqs : ~(Deleting(r) /\ InFlight(r))) =>
    \A e \in Range(db.exercises) : PlanRow(e.plan_id)

\* ------------------------------------------------------------ C3
\* C3: cascade.  A deletion of a plan that existed with exercises, none of
\* whose statements failed and with no other deletion of that plan around,
\* answers 200 success:true; and after a 200 a listing of the plan's exercises
\* is empty and the plan is in no user's plan listing.
Cascade ==
  \A r \in Reqs :
    (Deleting(r) /\ Finished(r)) =>
      /\ ( /\ req[r].before.plan /\ req[r].before.ex # {} /\ ~req[r].failed
           /\ \A q \in Reqs \ {r} :
                ~(Deleting(q) /\ req[q].arg.planId = req[r].arg.planId) )
         => (req[r].status = 200 /\ req[r].body.success = "true")
      /\ req[r].status = 200 =>
           \A t \in NowTx :
             /\ ListExercises(t, req[r].arg.planId) = <<>>
             /\ \A u \in UserIds :
                  \A i \in 1..Len(ListPlans(t, u)) :
                    ListPlans(t, u)[i].plan_id # req[r].arg.planId

\* ------------------------------------------------------------ C4
\* One step of the system, as request r's deletion of a missing plan allows it.
DeleteMissingStep(r) ==
  /\ (Deleting(r) /\ ExecStep(r) /\ ~PlanRow(req[r].arg.planId)) => db' = db
  /\ (Deleting(r) /\ ReturnStep(r)) =>
       /\ (req[r].stage = "COMMIT" /\ ~req[r].res.err /\ req[r].saved = <<>>)
            => /\ req'[r].status = 404
               /\ req'[r].body.success = "false"
               /\ req'[r].body.message = "Workout plan not found."
       /\ req'[r].status = 404 => (req[r].stage = "COMMIT" /\ ~req[r].res.err)

\* C4: deleting a plan that does not exist.  No statement of such a deletion
\* changes the committed tables; a deletion whose DELETE of the plan returned
\* no row answers 404 "Workout plan not found." once its COMMIT succeeded, and
\* a 404 is sent only from there.
DeleteMissingLeavesStore == [][\A r \in Reqs : DeleteMissingStep(r)]_vars

\* ------------------------------------------------------------ C5
\* C5: a failed statement rolls the deletion back.  A finished deletion one of
\* whose statements BEGIN .. COMMIT failed went through ROLLBACK, was answered
\* exactly once, with 500 success:false, and none of the deletions its
\* statements made is committed.
FailureRollsBack ==
  \A r \in Reqs :
    (Deleting(r) /\ Finished(r) /\ req[r].failed) =>
      /\ req[r].stage = "ROLLBACK"
      /\ req[r].nresp = 1
      /\ req[r].status = 500
      /\ req[r].body.success = "false"
      /\ \A d \in durable : d.by # r

\* ------------------------------------------------------------ C6
\* The transaction r's COMMIT or ROLLBACK ends holds only r's deletions.
EndsOnlyOwn(r) ==
  (Deleting(r) /\ ExecStep(r) /\ req[r].stmt.op \in {"Commit", "Rollback"}) =>
    \A d \in tx[req[r].conn].delP \cup tx[req[r].conn].delE : d.by = r

\* Two finished, unfailed deletions of different plans removed both.
SerialOutcome ==
  \A r, q \in Reqs :
    ( /\ Deleting(r) /\ Deleting(q) /\ req[r].arg.planId # req[q].arg.planId
      /\ req[r].pc = "done" /\ req[q].pc = "done"
      /\ ~req[r].failed /\ ~req[q].failed )
    => /\ ~PlanRow(req[r].arg.planId)
       /\ req[r].before.ex \cap ExerciseIds = {}

\* C6: concurrent deletions are isolated.  A COMMIT or ROLLBACK of one request
\* ends a transaction holding only that request's deletions, and two finished,
\* unfailed deletions of different plans leave what running them one after the
\* other leaves: both plans and their exercises gone.
DeletionsIsolated == [][(\A r \in Reqs : EndsOnlyOwn(r)) /\ SerialOutcome']_vars

\* ------------------------------------------------------------ C7
\* The parts of the login claim, for one step of request r.
LoginSelects(r) ==
  (ExecStep(r) /\ ~req'[r].res.err) =>
    LET visible == View(tx[req[r].conn]).users
        rows == req'[r].res.rows
    IN /\ \A i \in 1..Len(rows) : rows[i].username = req[r].arg.username
       /\ Range(rows) = {u \in Range(visible) : u.username = req[r].arg.username}

LoginAnswers(r) ==
  (ReturnStep(r) /\ ~req[r].res.err /\ req[r].arg.password # Missing) =>
    LET rows == req[r].res.rows
        now == req'[r]
    IN /\ now.pc = "done" /\ now.nresp = 1
       /\ now.status \in {200, 401, 404}
       /\ now.status = 404 <=> rows = <<>>
       /\ now.status = 401 <=>
            (rows # <<>> /\ Digest(req[r].arg.password, rows[1].password.salt)
                              # rows[1].password.digest)
       /\ now.status = 200 <=>
            (rows # <<>> /\ Digest(req[r].arg.password, rows[1].password.salt)
                              = rows[1].password.digest)
       /\ now.body.success = (IF now.status = 200 THEN "true" ELSE "false")
       /\ now.status = 200 => now.body.data = <<rows[1]>>

LoginReadsOnly(r) ==
  (req[r].pc # req'[r].pc) => (db' = db /\ seq' = seq /\ durable' = durable)

\* C7: login has three non-error outcomes, decided by the store and the hash
\* check, and never modifies the store.  The SELECT returns exactly the user
\* rows visible on its connection that carry the given username; with no
\* store error and a password supplied, no such row gives 404 success:false,
\* a row whose stored hash does not verify gives 401 success:false, a row
\* whose hash verifies gives 200 success:true with that row; and no step of a
\* login request changes the committed tables or the id sequences.
LoginOutcomes ==
  [][\A r \in Reqs :
       req'[r].kind = "login" =>
         (LoginSelects(r) /\ LoginAnswers(r) /\ LoginReadsOnly(r))]_vars

\* Witness for C7: in one run a login was answered 200 with the user row and
\* another login was answered 401.
LoginWitness ==
  \E r, q \in Reqs :
    /\ req[r].kind = "login" /\ req[r].pc = "done" /\ req[r].status = 200
    /\ req[r].body.data # <<>>
    /\ req[q].kind = "login" /\ req[q].pc = "done" /\ req[q].status = 401

\* ------------------------------------------------------------ C8
\* C8: exercise round trip.  An exercise creation answered 201 returns a row
\* carrying the submitted fields, and as long as no DELETE has removed that
\* row a listing of its plan holds it exactly once; a listing never holds a
\* row of another plan.
ExerciseRoundTrip ==
  \A r \in Reqs :
    (req[r].kind = "exerciseCreate" /\ req[r].pc = "done" /\ req[r].status = 201) =>
      LET row == req[r].body.data[1]
          a == req[r].arg
          deleted == \/ \E d \in durable : d.tbl = "exercise" /\ d.id = row.exercise_id
                     \/ \E c \in Clients : row.exercise_id \in Ids(tx[c].delE)
      IN /\ row.plan_id = a.planId /\ row.exercise_name = a.exercise_name
         /\ row.sets = a.sets /\ row.repetitions = a.repetitions
         /\ row.notes = a.notes
         /\ \A t \in NowTx :
              LET list == ListExercises(t, a.planId)
              IN /\ \A i \in 1..Len(list) : list[i].plan_id = a.planId
                 /\ ~deleted => Cardinality({i \in 1..Len(list) : list[i] = row}) = 1

\* ------------------------------------------------------------ C9
\* A statement runs in no transaction, or in the one its own request opened.
OwnTransaction(r) ==
  ExecStep(r) =>
    /\ (Deleting(r) /\ req[r].stage \in {"DELEX", "DELPLAN", "COMMIT"})
         => (tx[req[r].conn].open /\ tx[req[r].conn].by = r)
    /\ tx[req[r].conn].open => tx[req[r].conn].by = r

\* A deletion issues its statements in the order BEGIN, DELETE exercises,
\* DELETE plan, COMMIT, with ROLLBACK after a failure.
StageOrder(r) ==
  (Deleting(r) /\ Deleting(r)' /\ req'[r].stage # req[r].stage) =>
    <<req[r].stage, req'[r].stage>> \in
      {<<"BEGIN", "DELEX">>, <<"DELEX", "DELPLAN">>, <<"DELPLAN", "COMMIT">>,
       <<"BEGIN", "ROLLBACK">>, <<"DELEX", "ROLLBACK">>, <<"DELPLAN", "ROLLBACK">>,
       <<"COMMIT", "ROLLBACK">>}

\* The handler of r resumes in this step: pool.query has released its client.
ReleaseStep(r) == req[r].pc = "replied" /\ req'[r].pc # "replied"

ReleasedClosed(r) == ReleaseStep(r) => ~tx[req[r].conn].open

NoIdleTransaction == \A c \in Range(idle) : ~tx[c].open

\* C9: one connection per deletion.  A deletion issues BEGIN, the exercise
\* delete, the plan delete and COMMIT (or ROLLBACK) in that order; those after
\* BEGIN run on the connection whose transaction that BEGIN opened; no other
\* request's statement runs inside that transaction; and no client is
\* released to the pool, or sits idle in it, with a transaction open.
OneConnectionPerDeletion ==
  [][ /\ \A r \in Reqs : StageOrder(r) /\ OwnTransaction(r) /\ ReleasedClosed(r)
      /\ NoIdleTransaction' ]_vars

\* ------------------------------------------------------------ C10
\* C10: every request is answered exactly once.  A handler that has ended has
\* sent one response; a registration whose hashing failed and a deletion whose
\* ROLLBACK failed were answered 500.
ExactlyOneResponse ==
  \A r \in Reqs :
    Finished(r) =>
      /\ req[r].nresp = 1
      /\ (req[r].kind = "register" /\ req[r].arg.password = Missing)
           => req[r].status = 500
      /\ (Deleting(r) /\ req[r].stage = "ROLLBACK") => req[r].status = 500

====
